---- MODULE Spec2Model ----
(***************************************************************************)
(* The Author/Book resource API of Advanced_API_Development_DRF.           *)
(*                                                                         *)
(* Two serializer modules exist in the sources: library_api/serializers.py *)
(* (the one library_api/views.py imports) and books/serializers.py (the    *)
(* one of the books application, whose viewsets are registered in          *)
(* books/urls.py).  The variable `app` says which application serves the   *)
(* requests of a behaviour; the handlers are the generic create / list /   *)
(* retrieve / update / destroy views of library_api/views.py.              *)
(*                                                                         *)
(* Text values (title, genre, isbn, raw query parameters) are sequences of *)
(* one-character strings, so that length, ordering and substring search    *)
(* are computed.  An optional request field is a set: {} when the field is *)
(* absent from the payload, {v} when it carries the value v.               *)
(***************************************************************************)
EXTENDS Integers, Sequences, FiniteSets, TLC

VARIABLES app, authors, books, next_author_id, next_book_id, today, last

vars == <<app, authors, books, next_author_id, next_book_id, today, last>>

store == <<authors, books, next_author_id, next_book_id>>

----------------------------------------------------------------------------
(* Bounds of the model *)

MaxAuthors == 2

MaxBooks == 2

----------------------------------------------------------------------------
(* Input values *)

Apps == {"library_api", "books"}

AuthorNames == {<<"A">>}

Titles == {<<"T">>}

drama == <<"d", "r", "a", "m", "a">>

comedy == <<"c", "o", "m", "e", "d", "y">>

Genres == {drama, comedy}

isbn_short == <<"1", "2", "3">>

isbn_ok == <<"1", "2", "3", "4", "5", "6", "7", "8", "9", "0", "1", "2", "3">>

Isbns == {isbn_short, isbn_ok}

Date(y, m, d) == [year |-> y, month |-> m, day |-> d]

Dec31 == Date(2026, 12, 31)

Jan01 == Date(2027, 1, 1)

Dates == {Dec31, Jan01}

Opt(S) == {{}} \cup {{v} : v \in S}

Has(o) == o # {}

Val(o) == CHOOSE v \in o : TRUE

----------------------------------------------------------------------------
(* datetime.date: comparison *)

DateAfter(a, b) ==
    \/ a.year > b.year
    \/ a.year = b.year /\ a.month > b.month
    \/ a.year = b.year /\ a.month = b.month /\ a.day > b.day

(* Collation of text values: code-point order of the characters in use *)

Alphabet ==
    <<"0", "1", "2", "3", "4", "5", "6", "7", "8", "9",
      "D", "T", "a", "c", "d", "e", "m", "o", "r", "t", "u", "x", "y">>

CharRank(c) == CHOOSE i \in 1..Len(Alphabet) : Alphabet[i] = c

RECURSIVE StrLess(_, _)
StrLess(s, t) ==
    IF t = <<>> THEN FALSE
    ELSE IF s = <<>> THEN TRUE
    ELSE IF Head(s) = Head(t) THEN StrLess(Tail(s), Tail(t))
    ELSE CharRank(Head(s)) < CharRank(Head(t))

Lower(c) == IF c = "D" THEN "d" ELSE IF c = "T" THEN "t" ELSE c

LowerStr(s) == [i \in 1..Len(s) |-> Lower(s[i])]

(* the icontains lookup of the store *)
IContains(hay, needle) ==
    \E i \in 1..(Len(hay) + 1) :
        /\ i + Len(needle) - 1 <= Len(hay)
        /\ SubSeq(LowerStr(hay), i, i + Len(needle) - 1) = LowerStr(needle)

Digits == {"0", "1", "2", "3", "4", "5", "6", "7", "8", "9"}

IsInt(s) == Len(s) > 0 /\ \A i \in 1..Len(s) : s[i] \in Digits

RECURSIVE ToInt(_)
ToInt(s) ==
    IF s = <<>> THEN 0
    ELSE 10 * ToInt(SubSeq(s, 1, Len(s) - 1)) + (CharRank(s[Len(s)]) - 1)

----------------------------------------------------------------------------
(* The models: Author(name, bio), Book(title, author, published_date,     *)
(* isbn, genre).  A Book that is saved without a genre holds the empty    *)
(* text.  The models' column options (length limits, uniqueness) are not  *)
(* part of the sources; no input value depends on them.                   *)

ModelFields == {"title", "author", "published_date", "isbn", "genre"}

NoGenre == <<>>

NewBook ==
    [title |-> <<>>, author |-> 0, published_date |-> Date(1, 1, 1),
     isbn |-> <<>>, genre |-> NoGenre]

----------------------------------------------------------------------------
(* Serializers *)

LibAuthorFields == {"id", "name", "bio"}

BooksAuthorFields == {"id", "name", "bio", "book_count"}

AuthorSerializerFields(a) ==
    IF a = "books" THEN BooksAuthorFields ELSE LibAuthorFields

(* a count of the whole Book table instead of the author's books *)
get_book_count_all(bks, obj) == Cardinality(DOMAIN bks)

(* obj.books.count() *)
get_book_count(bks, obj) ==
    Cardinality({b \in DOMAIN bks : bks[b].author = obj})

AuthorRepr(a, auth, bks, id) ==
    [f \in AuthorSerializerFields(a) |->
        CASE f = "id" -> id
          [] f = "name" -> auth[id].name
          [] f = "bio" -> auth[id].bio
          [] f = "book_count" -> get_book_count(bks, id)]

LibBookFields ==
    {"id", "title", "author", "author_id", "published_date", "isbn", "genre"}

BooksBookFields ==
    {"id", "title", "author", "author_id", "published_date", "published_year",
     "isbn"}

BookSerializerFields(a) ==
    IF a = "books" THEN BooksBookFields ELSE LibBookFields

(* published_year declared as a plain, writable field *)
ReadOnlyFields_writable_year(a) == {"id", "author"}

(* id (the primary key), author (read_only=True) and, in books, the       *)
(* SerializerMethodField published_year                                    *)
ReadOnlyFields(a) ==
    {"id", "author"} \cup (IF a = "books" THEN {"published_year"} ELSE {})

WriteOnlyFields(a) == {"author_id"}

WritableFields(a) == BookSerializerFields(a) \ ReadOnlyFields(a)

ReadableFields(a) == BookSerializerFields(a) \ WriteOnlyFields(a)

(* the field's source attribute *)
SourceOf(f) == IF f = "author_id" THEN "author" ELSE f

Required(f) == f # "genre"

get_published_year(obj) == obj.published_date.year

validate_isbn(value) == Len(value) = 13

validate_published_year(value, now) == ~DateAfter(value, now)

validate_published_date(value, now) == ~DateAfter(value, now)

(* the validate_<field_name> methods a serializer class defines *)
FieldValidators(a) ==
    IF a = "books" THEN {"isbn", "published_year", "published_date"} ELSE {}

RunValidator(f, value, now) ==
    CASE f = "isbn" -> validate_isbn(value)
      [] f = "published_year" -> validate_published_year(value, now)
      [] f = "published_date" -> validate_published_date(value, now)
      [] OTHER -> TRUE

(* a key that is not looked up in the queryset *)
FieldOk_unchecked(f, p, auth) == TRUE

(* PrimaryKeyRelatedField(queryset=Author.objects.all()).to_internal_value *)
FieldOk(f, p, auth) == f = "author_id" => Val(p[f]) \in DOMAIN auth

(* the validate_<field_name> methods that run on a payload *)
Called(a, p, auth) ==
    {f \in WritableFields(a) \cap FieldValidators(a) :
        Has(p[f]) /\ FieldOk(f, p, auth)}

(* Serializer.to_internal_value: the errors of all fields, by field name *)
Errors(a, p, partial, auth, now) ==
    {f \in WritableFields(a) :
        IF ~Has(p[f]) THEN ~partial /\ Required(f)
        ELSE \/ ~FieldOk(f, p, auth)
             \/ f \in FieldValidators(a) /\ ~RunValidator(f, Val(p[f]), now)}

(* validated_data applied to an instance, keyed by each field's source *)
Save(instance, a, p) ==
    [k \in ModelFields |->
        IF \E f \in WritableFields(a) : SourceOf(f) = k /\ Has(p[f])
        THEN Val(p[CHOOSE f \in WritableFields(a) : SourceOf(f) = k /\ Has(p[f])])
        ELSE instance[k]]

BookRepr(a, auth, bks, id) ==
    [f \in ReadableFields(a) |->
        CASE f = "id" -> id
          [] f = "author" -> AuthorRepr(a, auth, bks, bks[id].author)
          [] f = "published_year" -> get_published_year(bks[id])
          [] OTHER -> bks[id][f]]

----------------------------------------------------------------------------
(* Requests and responses *)

NoPayload ==
    [name |-> {}, title |-> {}, author_id |-> {}, author |-> {},
     published_date |-> {}, published_year |-> {}, isbn |-> {}, genre |-> {}]

NoQuery == [genre |-> {}, author_id |-> {}, search |-> {}, ordering |-> {}]

Exchange(op, target, payload, query, status, errors, called, body) ==
    [op |-> op, target |-> target, payload |-> payload, query |-> query,
     status |-> status, errors |-> errors, called |-> called, body |-> body,
     ordering |-> <<>>]

Idle == Exchange("idle", 0, NoPayload, NoQuery, 0, {}, {}, <<>>)

AuthorPayloads == {[NoPayload EXCEPT !.name = n] : n \in Opt(AuthorNames)}

NestedAuthor == [id |-> 2, name |-> <<"x">>]

AllBookPayloads ==
    [name : {{}}, title : Opt(Titles), author_id : Opt(1..MaxAuthors),
     author : Opt({NestedAuthor}), published_date : Opt(Dates),
     published_year : Opt({Jan01}), isbn : Opt(Isbns), genre : Opt(Genres)]

(* the read-only fields author and published_year come together, as in a *)
(* representation sent back, or not at all                                *)
BookPayloads ==
    {p \in AllBookPayloads : Has(p.author) = Has(p.published_year)}

OrderingTerm(desc, f) == [desc |-> desc, field |-> f]

Orderings ==
    {<<OrderingTerm(FALSE, "title")>>, <<OrderingTerm(TRUE, "published_date")>>,
     <<OrderingTerm(FALSE, "genre")>>, <<OrderingTerm(FALSE, "isbn")>>,
     <<OrderingTerm(FALSE, "bogus")>>}

Queries ==
    [genre : Opt(Genres), author_id : Opt({<<"1">>, <<"2">>, <<"x">>}),
     search : Opt({<<<<"D", "r">>>>}), ordering : Opt(Orderings)]

----------------------------------------------------------------------------
(* Author handlers *)

AuthorErrors(p, partial) == {f \in {"name"} : ~Has(p[f]) /\ ~partial}

(* AuthorListCreateView: POST *)
CreateAuthor ==
    /\ last = Idle
    /\ next_author_id <= MaxAuthors
    /\ \E p \in AuthorPayloads :
        LET errs == AuthorErrors(p, FALSE)
            id == next_author_id
            auth == [i \in DOMAIN authors \cup {id} |->
                        IF i = id THEN [name |-> Val(p.name), bio |-> <<>>]
                        ELSE authors[i]]
        IN IF errs # {}
           THEN /\ last' = Exchange("create_author", 0, p, NoQuery, 400, errs, {}, <<>>)
                /\ UNCHANGED <<authors, next_author_id>>
           ELSE /\ authors' = auth
                /\ next_author_id' = id + 1
                /\ last' = Exchange("create_author", id, p, NoQuery, 201, {}, {},
                                    <<AuthorRepr(app, auth, books, id)>>)
    /\ UNCHANGED <<app, books, next_book_id, today>>

(* AuthorListCreateView: GET *)
ListAuthors ==
    /\ last = Idle
    /\ \E seq \in [1..Cardinality(DOMAIN authors) -> DOMAIN authors] :
        /\ \A i, j \in DOMAIN seq : i # j => seq[i] # seq[j]
        /\ last' = Exchange("list_authors", 0, NoPayload, NoQuery, 200, {}, {},
                            [i \in DOMAIN seq |-> AuthorRepr(app, authors, books, seq[i])])
    /\ UNCHANGED <<app, authors, books, next_author_id, next_book_id, today>>

(* AuthorDetailView: GET *)
RetrieveAuthor ==
    /\ last = Idle
    /\ \E id \in 1..MaxAuthors :
        last' = IF id \in DOMAIN authors
                THEN Exchange("retrieve_author", id, NoPayload, NoQuery, 200, {}, {},
                              <<AuthorRepr(app, authors, books, id)>>)
                ELSE Exchange("retrieve_author", id, NoPayload, NoQuery, 404, {}, {}, <<>>)
    /\ UNCHANGED <<app, authors, books, next_author_id, next_book_id, today>>

(* AuthorDetailView: PUT (partial = FALSE) and PATCH (partial = TRUE) *)
UpdateAuthor ==
    /\ last = Idle
    /\ \E id \in 1..MaxAuthors, p \in AuthorPayloads, partial \in BOOLEAN :
        LET errs == AuthorErrors(p, partial)
            auth == [authors EXCEPT ![id].name =
                        IF Has(p.name) THEN Val(p.name) ELSE @]
        IN IF id \notin DOMAIN authors
           THEN /\ last' = Exchange("update_author", id, p, NoQuery, 404, {}, {}, <<>>)
                /\ UNCHANGED authors
           ELSE IF errs # {}
           THEN /\ last' = Exchange("update_author", id, p, NoQuery, 400, errs, {}, <<>>)
                /\ UNCHANGED authors
           ELSE /\ authors' = auth
                /\ last' = Exchange("update_author", id, p, NoQuery, 200, {}, {},
                                    <<AuthorRepr(app, auth, books, id)>>)
    /\ UNCHANGED <<app, books, next_author_id, next_book_id, today>>

(* Collector.delete with on_delete=CASCADE: the Author and the Books that *)
(* reference it                                                           *)
Cascade(id) ==
    /\ authors' = [i \in DOMAIN authors \ {id} |-> authors[i]]
    /\ books' = [b \in {b \in DOMAIN books : books[b].author # id} |-> books[b]]
    /\ last' = Exchange("destroy_author", id, NoPayload, NoQuery, 204, {}, {}, <<>>)

(* on_delete=PROTECT: a referenced Author is not deleted *)
Protect(id) ==
    /\ \E b \in DOMAIN books : books[b].author = id
    /\ last' = Exchange("destroy_author", id, NoPayload, NoQuery, 500, {}, {}, <<>>)
    /\ UNCHANGED <<authors, books>>

(* AuthorDetailView: DELETE *)
DestroyAuthor ==
    /\ last = Idle
    /\ \E id \in 1..MaxAuthors :
        IF id \notin DOMAIN authors
        THEN /\ last' = Exchange("destroy_author", id, NoPayload, NoQuery, 404, {}, {}, <<>>)
             /\ UNCHANGED <<authors, books>>
        ELSE Cascade(id) \/ Protect(id)
    /\ UNCHANGED <<app, next_author_id, next_book_id, today>>

----------------------------------------------------------------------------
(* Book handlers *)

(* BookListCreateView: POST *)
CreateBook ==
    /\ last = Idle
    /\ next_book_id <= MaxBooks
    /\ \E p \in BookPayloads :
        LET errs == Errors(app, p, FALSE, authors, today)
            called == Called(app, p, authors)
            id == next_book_id
            bks == [b \in DOMAIN books \cup {id} |->
                       IF b = id THEN Save(NewBook, app, p) ELSE books[b]]
        IN IF errs # {}
           THEN /\ last' = Exchange("create_book", 0, p, NoQuery, 400, errs, called, <<>>)
                /\ UNCHANGED <<books, next_book_id>>
           ELSE /\ books' = bks
                /\ next_book_id' = id + 1
                /\ last' = Exchange("create_book", id, p, NoQuery, 201, {}, called,
                                    <<BookRepr(app, authors, bks, id)>>)
    /\ UNCHANGED <<app, authors, next_author_id, today>>

(* an update that saves the fields that passed before it reports the rest *)
Update_saves_valid_fields(op, id, p, partial) ==
    LET errs == Errors(app, p, partial, authors, today)
        called == Called(app, p, authors)
        valid == [f \in DOMAIN p |-> IF f \in errs THEN {} ELSE p[f]]
        bks == [books EXCEPT ![id] = Save(@, app, p)]
    IN IF id \notin DOMAIN books
       THEN /\ last' = Exchange(op, id, p, NoQuery, 404, {}, {}, <<>>)
            /\ UNCHANGED books
       ELSE IF errs # {}
       THEN /\ last' = Exchange(op, id, p, NoQuery, 400, errs, called, <<>>)
            /\ books' = [books EXCEPT ![id] = Save(@, app, valid)]
       ELSE /\ books' = bks
            /\ last' = Exchange(op, id, p, NoQuery, 200, {}, called,
                                <<BookRepr(app, authors, bks, id)>>)

(* UpdateModelMixin.update *)
Update(op, id, p, partial) ==
    LET errs == Errors(app, p, partial, authors, today)
        called == Called(app, p, authors)
        bks == [books EXCEPT ![id] = Save(@, app, p)]
    IN IF id \notin DOMAIN books
       THEN /\ last' = Exchange(op, id, p, NoQuery, 404, {}, {}, <<>>)
            /\ UNCHANGED books
       ELSE IF errs # {}
       THEN /\ last' = Exchange(op, id, p, NoQuery, 400, errs, called, <<>>)
            /\ UNCHANGED books
       ELSE /\ books' = bks
            /\ last' = Exchange(op, id, p, NoQuery, 200, {}, called,
                                <<BookRepr(app, authors, bks, id)>>)

(* BookDetailView: PUT *)
UpdateBook ==
    /\ last = Idle
    /\ \E id \in 1..MaxBooks, p \in BookPayloads : Update("update_book", id, p, FALSE)
    /\ UNCHANGED <<app, authors, next_author_id, next_book_id, today>>

(* BookDetailView: PATCH *)
PartialUpdateBook ==
    /\ last = Idle
    /\ \E id \in 1..MaxBooks, p \in BookPayloads :
        Update("partial_update_book", id, p, TRUE)
    /\ UNCHANGED <<app, authors, next_author_id, next_book_id, today>>

(* BookDetailView: GET *)
RetrieveBook ==
    /\ last = Idle
    /\ \E id \in 1..MaxBooks :
        last' = IF id \in DOMAIN books
                THEN Exchange("retrieve_book", id, NoPayload, NoQuery, 200, {}, {},
                              <<BookRepr(app, authors, books, id)>>)
                ELSE Exchange("retrieve_book", id, NoPayload, NoQuery, 404, {}, {}, <<>>)
    /\ UNCHANGED <<app, authors, books, next_author_id, next_book_id, today>>

(* BookDetailView: DELETE *)
DestroyBook ==
    /\ last = Idle
    /\ \E id \in 1..MaxBooks :
        IF id \in DOMAIN books
        THEN /\ books' = [b \in DOMAIN books \ {id} |-> books[b]]
             /\ last' = Exchange("destroy_book", id, NoPayload, NoQuery, 204, {}, {}, <<>>)
        ELSE /\ last' = Exchange("destroy_book", id, NoPayload, NoQuery, 404, {}, {}, <<>>)
             /\ UNCHANGED books
    /\ UNCHANGED <<app, authors, next_author_id, next_book_id, today>>

----------------------------------------------------------------------------
(* Book listing *)

(* the class attributes of BookListCreateView *)
BookListCreateView ==
    [filter_backends |-> <<"SearchFilter", "OrderingFilter">>,
     search_fields |-> {"title", "genre"},
     order_fields |-> {"title", "published_date", "genre"}]

(* the author_id filter applied to Book.objects.all() instead of queryset *)
get_queryset_restart(bks, q) ==
    IF Has(q.author_id)
    THEN {b \in DOMAIN bks : bks[b].author = ToInt(Val(q.author_id))}
    ELSE IF Has(q.genre)
    THEN {b \in DOMAIN bks : bks[b].genre = Val(q.genre)}
    ELSE DOMAIN bks

(* BookListCreateView.get_queryset; author_id is the raw parameter, turned *)
(* into a number by the lookup                                             *)
get_queryset(bks, q) ==
    LET by_genre == IF Has(q.genre)
                    THEN {b \in DOMAIN bks : bks[b].genre = Val(q.genre)}
                    ELSE DOMAIN bks
    IN IF Has(q.author_id)
       THEN {b \in by_genre : bks[b].author = ToInt(Val(q.author_id))}
       ELSE by_genre

(* SearchFilter.filter_queryset: every term in at least one search field *)
SearchFilter(view, bks, ids, q) ==
    IF ~Has(q.search) THEN ids
    ELSE {b \in ids :
            \A i \in DOMAIN Val(q.search) :
                \E f \in view.search_fields : IContains(bks[b][f], Val(q.search)[i])}

(* OrderingFilter.get_valid_fields: the view's ordering_fields, or else   *)
(* the serializer's readable fields that have a source                    *)
get_valid_fields(view, a) ==
    IF "ordering_fields" \in DOMAIN view
    THEN view.ordering_fields
    ELSE {SourceOf(f) : f \in {g \in ReadableFields(a) : g # "published_year"}}

(* OrderingFilter.get_ordering with remove_invalid_fields *)
get_ordering(view, a, q) ==
    IF ~Has(q.ordering) THEN <<>>
    ELSE SelectSeq(Val(q.ordering), LAMBDA t : t.field \in get_valid_fields(view, a))

KeyLess(bks, f, x, y) ==
    CASE f = "id" -> x < y
      [] f = "author" -> bks[x].author < bks[y].author
      [] f = "published_date" -> DateAfter(bks[y].published_date, bks[x].published_date)
      [] OTHER -> StrLess(bks[x][f], bks[y][f])

RECURSIVE Before(_, _, _, _)
Before(bks, terms, x, y) ==
    IF terms = <<>> THEN FALSE
    ELSE LET t == Head(terms)
             lt == IF t.desc THEN KeyLess(bks, t.field, y, x) ELSE KeyLess(bks, t.field, x, y)
             gt == IF t.desc THEN KeyLess(bks, t.field, x, y) ELSE KeyLess(bks, t.field, y, x)
         IN lt \/ (~gt /\ Before(bks, Tail(terms), x, y))

(* queryset.order_by: rows with equal keys come in any order *)
Ordered(bks, terms, seq) ==
    \A i, j \in DOMAIN seq : i < j => ~Before(bks, terms, seq[j], seq[i])

(* BookListCreateView: GET *)
ListBooks ==
    /\ last = Idle
    /\ \E q \in Queries :
        IF Has(q.author_id) /\ ~IsInt(Val(q.author_id))
        THEN last' = Exchange("list_books", 0, NoPayload, q, 500, {}, {}, <<>>)
        ELSE LET ids == SearchFilter(BookListCreateView, books, get_queryset(books, q), q)
                 terms == get_ordering(BookListCreateView, app, q)
             IN \E seq \in [1..Cardinality(ids) -> ids] :
                 /\ \A i, j \in DOMAIN seq : i # j => seq[i] # seq[j]
                 /\ Ordered(books, terms, seq)
                 /\ last' = [Exchange("list_books", 0, NoPayload, q, 200, {}, {},
                                      [i \in DOMAIN seq |->
                                          BookRepr(app, authors, books, seq[i])])
                                EXCEPT !.ordering = terms]
    /\ UNCHANGED <<app, authors, books, next_author_id, next_book_id, today>>

----------------------------------------------------------------------------
(* The clock and the client *)

(* date.today() moves on *)
Tick ==
    /\ last = Idle
    /\ today = Dec31
    /\ today' = Jan01
    /\ UNCHANGED <<app, authors, books, next_author_id, next_book_id, last>>

(* the client has read the response *)
Respond ==
    /\ last # Idle
    /\ last' = Idle
    /\ UNCHANGED <<app, authors, books, next_author_id, next_book_id, today>>

Init ==
    /\ app \in Apps
    /\ authors = <<>>
    /\ books = <<>>
    /\ next_author_id = 1
    /\ next_book_id = 1
    /\ today = Dec31
    /\ last = Idle

Next ==
    \/ CreateAuthor
    \/ ListAuthors
    \/ RetrieveAuthor
    \/ UpdateAuthor
    \/ DestroyAuthor
    \/ CreateBook
    \/ UpdateBook
    \/ PartialUpdateBook
    \/ RetrieveBook
    \/ DestroyBook
    \/ ListBooks
    \/ Tick
    \/ Respond

Spec == Init /\ [][Next]_vars

----------------------------------------------------------------------------
(* Properties *)

BookWrites == {"create_book", "update_book", "partial_update_book"}

(* the exchange is a Book write that reached validation *)
Validated == last.op \in BookWrites /\ last.status # 404

Saved == last.op \in BookWrites /\ last.status \in {200, 201}

(* the Author representations of the response, top-level and nested *)
AuthorReprs ==
    IF last.op \in {"create_author", "list_authors", "retrieve_author", "update_author"}
    THEN {last.body[i] : i \in DOMAIN last.body}
    ELSE IF last.op \in BookWrites \cup {"retrieve_book", "list_books"}
    THEN {last.body[i].author : i \in DOMAIN last.body}
    ELSE {}

BookReprs ==
    IF last.op \in BookWrites \cup {"retrieve_book", "list_books"}
    THEN {last.body[i] : i \in DOMAIN last.body}
    ELSE {}

(* the decimal numeral of a one-digit number *)
Decimal(n) == <<Alphabet[n + 1]>>

Matches(b, q) ==
    /\ Has(q.genre) => books[b].genre = Val(q.genre)
    /\ Has(q.author_id) => Val(q.author_id) = Decimal(books[b].author)

(* C1: a Book write that carries an isbn is rejected when the isbn's      *)
(* length is not 13, and gets no isbn error when the length is 13; for    *)
(* the serializer the handlers use.                                       *)
C1_IsbnLengthEnforced ==
    Validated /\ Has(last.payload.isbn) =>
        IF Len(Val(last.payload.isbn)) # 13
        THEN last.status = 400
        ELSE "isbn" \notin last.errors

(* C2: a Book write that carries a published_date is rejected when the    *)
(* date is after the current date, and gets no published_date error when  *)
(* it is the current date or before.                                      *)
C2_FutureDateRejected ==
    Validated /\ Has(last.payload.published_date) =>
        IF DateAfter(Val(last.payload.published_date), today)
        THEN last.status = 400
        ELSE "published_date" \notin last.errors

(* C3: a Book create or update that fails validation writes nothing: the  *)
(* stored Authors and Books are the same after the request as before it.  *)
C3_RejectedWriteLeavesStore ==
    [][last'.op \in BookWrites /\ last'.status = 400 => store' = store]_vars

(* a partial update rejected for its isbn whose author_id is valid and    *)
(* differs from the stored author                                         *)
C3_Witness ==
    /\ last.op = "partial_update_book"
    /\ last.status = 400
    /\ last.errors = {"isbn"}
    /\ Has(last.payload.author_id)
    /\ books[last.target].author # Val(last.payload.author_id)

(* C4: every book_count in a response equals the number of stored Books   *)
(* whose author is that Author.                                           *)
C4_BookCountIsLive ==
    \A r \in AuthorReprs :
        "book_count" \in DOMAIN r =>
            r.book_count = Cardinality({b \in DOMAIN books : books[b].author = r.id})

(* a Book was moved to Author 2, who now has two books while Author 1     *)
(* still exists and has none                                              *)
C4_Witness ==
    /\ last.op \in {"update_book", "partial_update_book"}
    /\ last.status = 200
    /\ Has(last.payload.author_id)
    /\ "book_count" \in DOMAIN last.body[1].author
    /\ last.body[1].author.book_count = 2
    /\ DOMAIN authors = {1, 2}

(* C5: a list request without search returns exactly the stored Books     *)
(* that match the genre and author_id parameters it carries, each once.   *)
C5_ListIsExactlyTheMatches ==
    last.op = "list_books" /\ last.status = 200 /\ ~Has(last.query.search) =>
        /\ {last.body[i].id : i \in DOMAIN last.body}
              = {b \in DOMAIN books : Matches(b, last.query)}
        /\ Len(last.body) = Cardinality({b \in DOMAIN books : Matches(b, last.query)})

(* both parameters are given, two Books are stored, and one is returned   *)
C5_Witness ==
    /\ last.op = "list_books"
    /\ last.status = 200
    /\ ~Has(last.query.search)
    /\ Has(last.query.genre)
    /\ Has(last.query.author_id)
    /\ Cardinality(DOMAIN books) = 2
    /\ Len(last.body) = 1
    /\ \A b \in DOMAIN books :
          books[b].genre = Val(last.query.genre)
          \/ Val(last.query.author_id) = Decimal(books[b].author)

(* C6: after a successful create of a Book with genre G, a list request   *)
(* with genre=G contains the Book and one with another genre does not.    *)
C6_CreatedGenreIsListed ==
    last.op = "create_book" /\ last.status = 201 /\ Has(last.payload.genre) =>
        \A g \in Genres :
            last.target \in get_queryset(books, [NoQuery EXCEPT !.genre = {g}])
                <=> g = Val(last.payload.genre)

(* C7: every published_year in a response is the year of the stored       *)
(* published_date; a published_year in a payload is never validated, is   *)
(* never an error, and does not stand in for the published_date.          *)
C7_PublishedYearIsDerived ==
    /\ \A r \in BookReprs :
          "published_year" \in DOMAIN r =>
              r.published_year = books[r.id].published_date.year
    /\ "published_year" \notin last.called
    /\ "published_year" \notin last.errors
    /\ Saved /\ Has(last.payload.published_year) /\ Has(last.payload.published_date) =>
          books[last.target].published_date = Val(last.payload.published_date)

(* a saved write whose payload carried a published_year of another year   *)
(* than the one reported                                                  *)
C7_Witness ==
    /\ Saved
    /\ Has(last.payload.published_year)
    /\ "published_year" \in DOMAIN last.body[1]
    /\ last.body[1].published_year # Val(last.payload.published_year).year

(* C8: every stored Book references an Author that exists; a write whose  *)
(* author_id names no Author is rejected with an author_id error; a       *)
(* nested author object in the payload does not set the reference.        *)
C8_BookReferencesExistingAuthor ==
    /\ \A b \in DOMAIN books : books[b].author \in DOMAIN authors
    /\ Validated /\ Has(last.payload.author_id)
          /\ Val(last.payload.author_id) \notin DOMAIN authors =>
              last.status = 400 /\ "author_id" \in last.errors
    /\ Saved /\ Has(last.payload.author_id) =>
          books[last.target].author = Val(last.payload.author_id)

(* a write naming a deleted Author is rejected while Books are stored     *)
C8_Witness ==
    /\ Validated
    /\ last.status = 400
    /\ "author_id" \in last.errors
    /\ Has(last.payload.author_id)
    /\ Val(last.payload.author_id) < next_author_id
    /\ Has(last.payload.author)
    /\ DOMAIN books # {}

(* C9: a Book write whose isbn has a length other than 13 and whose       *)
(* published_date is after the current date gets an error response that   *)
(* names both isbn and published_date.                                    *)
C9_ErrorsReportedTogether ==
    (/\ Validated
     /\ Has(last.payload.isbn)
     /\ Len(Val(last.payload.isbn)) # 13
     /\ Has(last.payload.published_date)
     /\ DateAfter(Val(last.payload.published_date), today))
    => last.status = 400 /\ {"isbn", "published_date"} \subseteq last.errors

(* C10: the ordering applied to a Book list is the requested terms whose  *)
(* field is one of the view's order_fields (title, published_date,        *)
(* genre), the list is sorted by it, and it holds the same Books as the   *)
(* unordered list.                                                        *)
C10_OrderFieldsAreConsulted ==
    last.op = "list_books" /\ last.status = 200 =>
        /\ last.ordering =
              (IF Has(last.query.ordering)
               THEN SelectSeq(Val(last.query.ordering),
                              LAMBDA t : t.field \in BookListCreateView.order_fields)
               ELSE <<>>)
        /\ Ordered(books, last.ordering, [i \in DOMAIN last.body |-> last.body[i].id])
        /\ {last.body[i].id : i \in DOMAIN last.body}
              = SearchFilter(BookListCreateView, books,
                             get_queryset(books, last.query), last.query)

====
